---------------------------- MODULE Spec2Model ----------------------------
(***************************************************************************)
(* Model of the qoreCSS universal runtime module (index.js): the browser   *)
(* branch's stylesheet injection, injectCss, acting on a document's head,  *)
(* and the one-shot failure handler it installs on the link it creates.    *)
(*                                                                         *)
(* Strings (hrefs, script srcs, file names) are sequences of tokens; a     *)
(* token is an indivisible piece of text.  The separators "/", "?", "#"    *)
(* and "." are tokens of their own, so that split, slice, lastIndexOf,     *)
(* includes and the regular expression of the source are computed on the   *)
(* text as the source computes them.                                       *)
(*                                                                         *)
(* Six specifications share the module.  Spec is a page in which injectCss *)
(* and the failure handler run, and ScriptSpec the same on pages with an   *)
(* empty head and enumerated script elements.  LoadSpec is one evaluation  *)
(* of index.js in a host (path resolution by safeResolve, then the host or *)
(* the browser branch) followed by calls of the two accessors.  BuildSpec  *)
(* is the build script called repeatedly in one output directory and       *)
(* ConcSpec two build processes side by side in it.  PerfSpec is one run   *)
(* of scripts/performance.js.  Each specification holds the variables of   *)
(* the other subsystems still.                                             *)
(***************************************************************************)
EXTENDS Integers, Sequences, FiniteSets, TLC

\* ------------------------------------------------------------------ bounds
\* Number of link elements the page author wrote (head and body together).
MaxInitLinks == 2
\* Number of injectCss calls (module evaluations or direct calls) in one document.
MaxInject == 2
\* Number of build() calls in one output directory.
MaxBuilds == 2
\* Number of script elements in a document whose scripts are enumerated.
MaxScripts == 2

\* ----------------------------------------------------------- string helpers
\* String.prototype.indexOf for a one-token separator: 0 when absent.
IndexOf(s, t) ==
  IF \E i \in 1..Len(s) : s[i] = t
  THEN CHOOSE i \in 1..Len(s) : s[i] = t /\ \A j \in 1..(i - 1) : s[j] # t
  ELSE 0

\* String.prototype.lastIndexOf for a one-token separator: 0 when absent.
LastIndexOf(s, t) ==
  IF \E i \in 1..Len(s) : s[i] = t
  THEN CHOOSE i \in 1..Len(s) : s[i] = t /\ \A j \in (i + 1)..Len(s) : s[j] # t
  ELSE 0

\* s.split(t).pop(): the text after the last t, the whole text when t is absent.
SplitPop(s, t) == SubSeq(s, LastIndexOf(s, t) + 1, Len(s))

\* s.split(t)[0]: the text before the first t, the whole text when t is absent.
SplitFirst(s, t) ==
  IF IndexOf(s, t) = 0 THEN s ELSE SubSeq(s, 1, IndexOf(s, t) - 1)

\* String.prototype.includes.
Includes(hay, needle) ==
  \E i \in 1..(Len(hay) - Len(needle) + 1) :
    SubSeq(hay, i, i + Len(needle) - 1) = needle

\* ------------------------------------------------------------ program text
\* const cssFile = `core.5c7df4d0.min.css`
cssFile == <<"core", ".", "5c7df4d0", ".", "min", ".", "css">>

\* the plain fallback file name of the handler and of the fallback filter
qoreCss == <<"qore", ".", "css">>

\* tokens matching [a-f0-9]+
HexTokens == {"5c7df4d0", "abcdef12", "123"}

\* const coreRegex = /^core(?:\.[a-f0-9]+)?\.min\.css$/ ; coreRegex.test(file)
coreRegexTest(file) ==
  \/ file = <<"core", ".", "min", ".", "css">>
  \/ /\ Len(file) = Len(cssFile)
     /\ file[1] = "core" /\ file[2] = "."
     /\ file[3] \in HexTokens
     /\ SubSeq(file, 4, Len(file)) = <<".", "min", ".", "css">>

\* (href.split('/').pop() || '').split('?')[0].split('#')[0]
FileOfHref(href) == SplitFirst(SplitFirst(SplitPop(href, "/"), "?"), "#")

\* ------------------------------------------------------------ the document
\* The document's URL directory (the tests' JSDOM url 'https://example.com/').
DocBase == <<"https://example.com", "/">>

\* Scheme-and-host tokens: a text starting with one is an absolute URL.
Origins == {"https://example.com", "https://cdn.example.com",
            "https://cdn.other.com", "https://cdn.target.com"}

\* The href IDL attribute of a link: the content attribute resolved against
\* the document base.
ResolvedHref(attr) ==
  IF attr # <<>> /\ attr[1] \in Origins THEN attr ELSE DocBase \o attr

\* The file a URL names: query string and fragment stripped first, then the
\* last path segment (what a browser requests).
UrlFileName(href) == SplitPop(SplitFirst(SplitFirst(href, "?"), "#"), "/")


\* A link element: the href content attribute, rel and type, whether the
\* onerror handler is attached, whether injectCss created it, and the
\* basePath its handler closes over.
MkLink(attr, rel, type, onerror, injected, hbase) ==
  [attr |-> attr, rel |-> rel, type |-> type, onerror |-> onerror,
   injected |-> injected, hbase |-> hbase]

\* A link the page author wrote: no handler of this module.
PageLink(attr) == MkLink(attr, "stylesheet", "", FALSE, FALSE, <<>>)

\* hrefs of links a page may already hold when the module runs
HrefTarget == cssFile
HrefStaleQuery == <<"core", ".", "123", ".", "min", ".", "css", "?", "old=1">>
HrefPlainCore == <<"core", ".", "min", ".", "css">>
HrefFallback == qoreCss
HrefExtra == <<"core", ".", "extra", ".", "css">>
HrefDocsQore == <<"docs-", "qore", ".", "css">>
HrefMap == cssFile \o <<".", "map">>
HrefStaleSlashQuery ==
  <<"core", ".", "123", ".", "min", ".", "css", "?", "next=", "/", "home">>
HrefAgain == <<"again", ".", "css">>

InitHrefs == {HrefTarget, HrefStaleQuery, HrefPlainCore, HrefFallback,
              HrefExtra, HrefDocsQore, HrefMap, HrefStaleSlashQuery}

\* A script element: its src (resolved, <<>> when it has none), whether it
\* carries data-qorecss, and whether new URL(src, baseURI) parses.
MkScript(src, marked, valid) == [src |-> src, marked |-> marked, valid |-> valid]

ScriptData == MkScript(<<"https://cdn.example.com", "/", "data", "/", "script.js">>, TRUE, TRUE)
ScriptOther == MkScript(<<"https://cdn.other.com", "/", "ignore", "/", "index.js">>, FALSE, TRUE)
ScriptTarget == MkScript(<<"https://cdn.target.com", "/", "assets", "/", "index.js">>, TRUE, TRUE)
ScriptApp == MkScript(<<"https://cdn.example.com", "/", "app.js">>, FALSE, TRUE)
ScriptQoreDir ==
  MkScript(<<"https://cdn.example.com", "/", "qore", ".", "css", "/", "index.js">>, FALSE, TRUE)

ScriptUpperQuery ==
  MkScript(<<"https://cdn.target.com", "/", "lib", "/", "INDEX.JS", "?", "v=1">>, FALSE, TRUE)
ScriptInlineMarked == MkScript(<<>>, TRUE, TRUE)
ScriptBadUrl == MkScript(<<"http://[", "/", "index.js">>, FALSE, FALSE)

\* The script elements the enumerated documents are made of.
ScriptKinds == {ScriptOther, ScriptData, ScriptApp, ScriptUpperQuery,
                ScriptInlineMarked, ScriptBadUrl}

\* The documents' script elements in document order, with the index of
\* document.currentScript (0: null): no script at all; an index.js followed by
\* the marked index.js; an unrelated script followed by a marked one; the
\* module running as the current script from a directory named qore.css.
ScriptDocs ==
  { <<(<<>>), 0>>,
    <<(<<ScriptOther, ScriptTarget>>), 0>>,
    <<(<<ScriptApp, ScriptData>>), 0>>,
    <<(<<ScriptQoreDir>>), 1>> }

VARIABLES
  docState,       \* "ok", "nohead" (document.head is null) or "nodoc" (no document global)
  scripts,        \* the script elements in document order
  currentScript,  \* index in scripts of document.currentScript, 0 when null
  elems,          \* every link element that exists, by identity
  head,           \* the identities of the links in document.head, in document order
  body,           \* the identities of the links in document.body
  injections,     \* number of injectCss calls so far
  op,             \* the operation that ran last
  target,         \* the link the last event or page operation was about, else 0
  ret,            \* what the last injectCss returned: a link identity, 0 for undefined
  thrown          \* whether an exception left the last injectCss call

\* The host a module evaluation of index.js runs in, and what it leaves behind.
VARIABLES
  env,            \* the capabilities of the host: which globals and modules exist
  cwd,            \* the working directory of the process
  disk,           \* the absolute paths of the files that exist
  phase,          \* "fresh" before the module is evaluated, then "loaded" or "failed"
  moduleExports,  \* module.exports: the object assigned to it, undefined while untouched
  globalQorecss,  \* globalThis.qorecss: the object assigned to it, undefined while untouched
  loadError,      \* the message of the error that ended the evaluation, <<>> if none
  called,         \* the accessor called last: "none", "getStylesheet" or "getVariables"
  callRet,        \* the outcome of that call
  errLogs         \* the error reports the last operation logged

hostVars == <<env, cwd, disk, phase, moduleExports, globalQorecss, loadError,
              called, callRet, errLogs>>

\* The output directory of the build script and the builds running in it.
VARIABLES
  srcCss,         \* the text of the source stylesheet qore.css
  files,          \* the names of the files in the output directory
  hashRecord,     \* the text of build.hash, "" while the file does not exist
  indexLiteral,   \* the hash inside the cssFile literal of index.js
  builders,       \* the build invocations that can run
  pc,             \* where each invocation stands
  bHash,          \* the hash each invocation computed
  bList,          \* the old files each invocation still has to delete
  bPending,       \* the compressed variants each invocation still has to write
  bErrs,          \* the error codes the deletions of each invocation's current call met
  started,        \* number of build() calls so far
  returns         \* how the build() calls ended, in the order they ended

buildVars == <<srcCss, files, hashRecord, indexLiteral, builders, pc, bHash,
               bList, bPending, bErrs, started, returns>>

\* One run of the CDN timing script scripts/performance.js in the project directory.
VARIABLES
  MAX_CONCURRENCY, \* the limit read from the environment when the script loads
  QUEUE_LIMIT,     \* the batch size read from the environment when the script loads
  CODEX,           \* whether the environment asks for offline mode
  argv,            \* the command line: the --json flag and the other arguments
  buildHashFile,   \* build.hash as the script finds it
  historyFile,     \* performance-results.json
  now,             \* the clock the entries are stamped with
  runPc,           \* where run() stands
  fileName,        \* the stylesheet name run() measures
  requestCount,    \* the request count run() settled on
  urlIx,           \* the index in urls of the URL being measured, 0 before the first
  batchI,          \* i of the batch loop of measureUrl
  inFlight,        \* getTime calls that have neither resolved nor rejected
  issued,          \* getTime calls made for each URL of this run
  results,         \* the URLs whose average the results object holds
  rejection,       \* the error run() rejected with, "" if none
  failures,        \* the errors of the getTime calls that rejected, in order
  prior            \* performance-results.json as it was when run() was called

perfVars == <<MAX_CONCURRENCY, QUEUE_LIMIT, CODEX, argv, buildHashFile, historyFile,
              now, runPc, fileName, requestCount, urlIx, batchI, inFlight, issued,
              results, rejection, failures, prior>>

\* Everything but the page.
offPageVars == <<hostVars, buildVars, perfVars>>

domVars == <<docState, scripts, currentScript, elems, head, body, injections,
             op, target, ret, thrown>>

vars == <<docState, scripts, currentScript, elems, head, body, injections,
          op, target, ret, thrown, hostVars, buildVars, perfVars>>

\* ------------------------------------------------------------- injectCss
\* toLowerCase on the tokens that occur in script names
ToLowerCase(t) == IF t = "INDEX.JS" THEN "index.js" ELSE t

\* new URL(s.src, document.baseURI).pathname.toLowerCase().endsWith('index.js'),
\* false when the constructor throws
EndsWithIndexJs(s) ==
  /\ s.valid
  /\ LET url == IF s.src = <<>> THEN DocBase ELSE s.src
         pathname == SplitFirst(SplitFirst(url, "?"), "#")
     IN  pathname # <<>> /\ ToLowerCase(pathname[Len(pathname)]) = "index.js"

\* First index of a sequence satisfying a test given as a set of indices, 0 when none.
FirstIn(S) == IF S = {} THEN 0 ELSE CHOOSE i \in S : \A j \in S : i <= j

\* a lookup that asks for the marker before the file name
FindScriptEl_MarkerFirst(scr, cur) ==
  IF cur # 0 THEN cur
  ELSE LET found == FirstIn({i \in 1..Len(scr) : scr[i].marked})
       IN  IF found # 0 THEN found
           ELSE FirstIn({i \in 1..Len(scr) : EndsWithIndexJs(scr[i])})

\* The script element injectCss settles on (0: none): document.currentScript,
\* else scripts.find(...), else document.querySelector('script[data-qorecss]').
FindScriptEl(scr, cur) ==
  IF cur # 0 THEN cur
  ELSE LET found == FirstIn({i \in 1..Len(scr) : EndsWithIndexJs(scr[i])})
       IN  IF found # 0 THEN found
           ELSE FirstIn({i \in 1..Len(scr) : scr[i].marked})

\* scriptSrc.slice(0, scriptSrc.lastIndexOf('/') + 1), '' without a script or src
BasePath(scr, cur) ==
  LET el == FindScriptEl(scr, cur)
      scriptSrc == IF el # 0 THEN scr[el].src ELSE <<>>
  IN  SubSeq(scriptSrc, 1, LastIndexOf(scriptSrc, "/"))

\* The test of the first pass: coreRegex.test(file) && file !== cssFile
IsOutdated(attr) ==
  LET file == FileOfHref(attr) IN coreRegexTest(file) /\ file # cssFile

\* links.forEach(l => { ... l.remove() ... }): the head without the outdated links
RemoveOutdated(h, E) ==
  LET Keep(i) == ~IsOutdated(E[i].attr) IN SelectSeq(h, Keep)

\* Mutant of RemoveFallbacks: the fallback links are collected and left in place.
RemoveFallbacks_Kept(h, E) == h

\* freshLinks.filter(l => l.href.includes('qore.css')) removed from the head
RemoveFallbacks(h, E) ==
  LET Keep(i) == ~Includes(ResolvedHref(E[i].attr), qoreCss) IN SelectSeq(h, Keep)

\* Array.from(head links).filter(l => l.href.includes(cssFile))
HashedLinks(h, E) ==
  LET Hit(i) == Includes(ResolvedHref(E[i].attr), cssFile) IN SelectSeq(h, Hit)

\* Mutant of RemoveDuplicates: the extra hashed links are left in place.
RemoveDuplicates_Kept(h, E) == h

\* hashedLinks.slice(1).forEach(l => l.remove()): the head without the duplicates
RemoveDuplicates(h, E) ==
  LET hashed == HashedLinks(h, E)
      Keep(i) == Len(hashed) <= 1 \/ ~(\E k \in 2..Len(hashed) : hashed[k] = i)
  IN  SelectSeq(h, Keep)

\* The link injectCss creates when no hashed link is left.
NewLink(basePath) ==
  MkLink(basePath \o cssFile, "stylesheet", "text/css", TRUE, TRUE, basePath)

\* The head after the three cleanup passes.
CleanHead(h, E) == RemoveDuplicates(RemoveFallbacks(RemoveOutdated(h, E), E), E)

\* One call of injectCss: a module evaluation in the browser branch, or a
\* direct call of the global function.
InjectCss ==
  /\ injections < MaxInject
  /\ injections' = injections + 1
  /\ op' = "inject"
  /\ target' = 0
  /\ UNCHANGED <<docState, scripts, currentScript, body>>
  /\ IF docState = "nodoc"
     THEN \* the entry log reads document.currentScript outside the try block
          /\ thrown' = TRUE
          /\ ret' = 0
          /\ UNCHANGED <<elems, head>>
     ELSE IF docState = "nohead"
     THEN \* document.head.querySelectorAll throws inside the try block: caught and logged
          /\ thrown' = FALSE
          /\ ret' = 0
          /\ UNCHANGED <<elems, head>>
     ELSE LET basePath == BasePath(scripts, currentScript)
              cleaned == CleanHead(head, elems)
              hashedLinks == HashedLinks(RemoveFallbacks(RemoveOutdated(head, elems), elems), elems)
          IN  /\ thrown' = FALSE
              /\ IF hashedLinks = <<>>
                 THEN /\ elems' = Append(elems, NewLink(basePath))
                      /\ head' = Append(cleaned, Len(elems) + 1)
                      /\ ret' = Len(elems) + 1
                 ELSE /\ elems' = elems
                      /\ head' = cleaned
                      /\ ret' = hashedLinks[1]

\* ---------------------------------------------------------- initial pages
\* Sequences over S of length at most n.
SeqsUpTo(S, n) == UNION {[1..k -> S] : k \in 0..n}

\* What the body may hold: nothing, or one stylesheet link for the hashed file.
BodyChoices == {<<>>, <<HrefTarget>>}

\* ------------------------------------------------- the failure handler
\* Mutant of OnErrorHandler: the handler swaps the href and stays attached.
OnErrorHandler_NoDetach(l) == [l EXCEPT !.attr = l.hbase \o qoreCss]

\* link.onerror = () => { link.onerror = null; link.href = `${basePath}qore.css`; }
OnErrorHandler(l) == [l EXCEPT !.onerror = FALSE, !.attr = l.hbase \o qoreCss]

\* The browser reports a load failure of the injected link i: it calls
\* link.onerror when the handler is attached, and nothing runs otherwise.
\* (No code of this module runs for a failure of a link the page wrote.)
LoadError(i) ==
  /\ docState = "ok"
  /\ elems[i].injected
  /\ \E k \in 1..Len(head) : head[k] = i
  /\ elems' = IF elems[i].onerror THEN [elems EXCEPT ![i] = OnErrorHandler(elems[i])]
              ELSE elems
  /\ op' = "error"
  /\ target' = i
  /\ UNCHANGED <<docState, scripts, currentScript, head, body, injections, ret, thrown>>
  /\ UNCHANGED offPageVars

\* The page kept a reference to the handler of the injected link i
\* (const handle = link.onerror) and calls it.
InvokeStoredHandler(i) ==
  /\ docState = "ok"
  /\ elems[i].injected
  /\ \E k \in 1..Len(head) : head[k] = i
  /\ elems' = [elems EXCEPT ![i] = OnErrorHandler(elems[i])]
  /\ op' = "stored"
  /\ target' = i
  /\ UNCHANGED <<docState, scripts, currentScript, head, body, injections, ret, thrown>>
  /\ UNCHANGED offPageVars

\* The page assigns the href of the injected link i (link.href = 'again.css').
PageSetHref(i) ==
  /\ docState = "ok"
  /\ elems[i].injected
  /\ \E k \in 1..Len(head) : head[k] = i
  /\ elems' = [elems EXCEPT ![i].attr = HrefAgain]
  /\ op' = "sethref"
  /\ target' = i
  /\ UNCHANGED <<docState, scripts, currentScript, head, body, injections, ret, thrown>>
  /\ UNCHANGED offPageVars

\* ------------------------------------------------- the host: paths and files
\* The directory index.js is installed in, and another directory.
ModuleDir == <<"/pkg">>
OtherDir == <<"/app">>

\* The two literals the module resolves: './qore.css' and './variables.css'
DotQoreCss == <<".", "/">> \o qoreCss
DotVariablesCss == <<".", "/", "variables", ".", "css">>

\* A path that starts at a root directory.
IsAbsolute(p) == p # <<>> /\ p[1] \in {ModuleDir[1], OtherDir[1]}

\* A relative path without its leading './'
NormalizeRel(file) ==
  IF Len(file) >= 2 /\ file[1] = "." /\ file[2] = "/"
  THEN SubSeq(file, 3, Len(file))
  ELSE file

\* The files the package ships, installed in dir.
FilesIn(dir) == {dir \o <<"/">> \o NormalizeRel(f) : f \in {DotQoreCss, DotVariablesCss}}

\* path.resolve of node:path: an absolute result, from the base when there is one
\* and from the working directory when the base is the empty string.
NodePathResolve(base, file, c) ==
  IF IsAbsolute(file) THEN file
  ELSE (IF base = <<>> THEN c ELSE base) \o <<"/">> \o NormalizeRel(file)

\* path = {resolve:(_d,f)=>f}: the stand-in used when node:path is not available
StubPathResolve(base, file) == file

\* let path: node:path when require is a function and can load it, else the stand-in
HasPathModule(e) == e.req /\ e.pathLoads

\* let fs: node:fs when require is a function and can load it, else null
HasFsModule(e) == e.req /\ e.fsLoads

\* path.resolve(baseDir, file) with whichever path the module holds
PathResolve(e, base, file, c) ==
  IF HasPathModule(e) THEN NodePathResolve(base, file, c) ELSE StubPathResolve(base, file)

\* fs.existsSync(p): a relative path is looked up from the working directory
ExistsSync(p, c, d) ==
  (IF IsAbsolute(p) THEN p ELSE c \o <<"/">> \o NormalizeRel(p)) \in d

\* require.resolve(file) in index.js: the file named relative to the module itself
RequireResolve(file) == ModuleDir \o <<"/">> \o NormalizeRel(file)

\* typeof require==='function' && require.resolve
HasResolver(e) == e.req /\ e.resolver # "absent"

\* require.resolve(file) returns instead of throwing
NativeResolves(file, e, d) ==
  HasResolver(e) /\ e.resolver = "native" /\ RequireResolve(file) \in d

\* The two ways a call ends.
Returned(p) == [kind |-> "return", path |-> p, msg |-> <<>>]
Threw(m) == [kind |-> "throw", path |-> <<>>, msg |-> m]

\* const baseDir = typeof __dirname === 'string' ? __dirname : ''
BaseDir(e) == IF e.dirname THEN ModuleDir ELSE <<>>

\* const abs = path.resolve(baseDir, file)
FallbackPath(file, e, c) == PathResolve(e, BaseDir(e), file, c)

\* Mutant of safeResolve: a failure of require.resolve leaves the function.
safeResolve_Rethrow(file, e, c, d) ==
  IF HasResolver(e) /\ ~NativeResolves(file, e, d)
  THEN Threw(<<"Cannot find module ">> \o file)
  ELSE IF NativeResolves(file, e, d) THEN Returned(RequireResolve(file))
  ELSE Returned(FallbackPath(file, e, c))

\* Mutant of safeResolve: the fallback path is returned without the existence check.
safeResolve_Unchecked(file, e, c, d) ==
  IF NativeResolves(file, e, d)
  THEN Returned(RequireResolve(file))
  ELSE Returned(FallbackPath(file, e, c))

\* function safeResolve(file)
safeResolve(file, e, c, d) ==
  IF NativeResolves(file, e, d)
  THEN Returned(RequireResolve(file))
  ELSE LET abs == FallbackPath(file, e, c)
       IN  IF HasFsModule(e) /\ ~ExistsSync(abs, c, d)
           THEN Threw(<<"file not found: ">> \o abs)
           ELSE Returned(abs)

\* What one call of safeResolve reports through errLog or console.error.
safeResolveLogs(file, e, c, d) ==
  (IF HasResolver(e) /\ ~NativeResolves(file, e, d) THEN {"safeResolve failed"} ELSE {})
  \cup (IF safeResolve(file, e, c, d).kind = "throw" THEN {"safeResolve missing"} ELSE {})

\* ------------------------------------------------- the host: module evaluation
\* A property or global that was never assigned.
Undefined == [defined |-> FALSE, coreCss |-> <<>>, variablesCss |-> <<>>, serverSide |-> FALSE]

\* const qorecss = { coreCss: ..., variablesCss: ..., getStylesheet, getVariables }
\* serverSide is FALSE while the object has no such property.
QoreObject(core, vari) ==
  [defined |-> TRUE, coreCss |-> core, variablesCss |-> vari, serverSide |-> FALSE]

\* Mutant of HostExport: the exported object is not flagged.
HostExport_NoFlag(q) == q

\* module.exports = qorecss; module.exports.serverSide = true
HostExport(q) == [q EXCEPT !.serverSide = TRUE]

\* Mutant of HostBranch: the window global is not looked at.
HostBranch_AnyWindow(e) == e.mod

\* typeof window === 'undefined' && typeof module !== 'undefined' && module.exports
HostBranch(e) == ~e.win /\ e.mod

\* else if (typeof window !== 'undefined')
BrowserBranch(e) == ~HostBranch(e) /\ e.win

\* No accessor was called yet.
NoCall == [kind |-> "none", path |-> <<>>, msg |-> <<>>]

\* Evaluation of index.js from its first line to its last: the two paths are
\* resolved while the object literal is built, then one branch runs.
EvalModule ==
  /\ phase = "fresh"
  /\ UNCHANGED <<buildVars, perfVars>>
  /\ UNCHANGED <<env, cwd, disk, called, callRet>>
  /\ LET core == safeResolve(DotQoreCss, env, cwd, disk)
         vari == safeResolve(DotVariablesCss, env, cwd, disk)
         coreLogs == safeResolveLogs(DotQoreCss, env, cwd, disk)
         variLogs == safeResolveLogs(DotVariablesCss, env, cwd, disk)
     IN  IF core.kind = "throw"
         THEN /\ phase' = "failed"
              /\ loadError' = core.msg
              /\ errLogs' = coreLogs
              /\ UNCHANGED <<moduleExports, globalQorecss, domVars>>
         ELSE IF vari.kind = "throw"
         THEN /\ phase' = "failed"
              /\ loadError' = vari.msg
              /\ errLogs' = coreLogs \cup variLogs
              /\ UNCHANGED <<moduleExports, globalQorecss, domVars>>
         ELSE LET qorecss == QoreObject(core.path, vari.path)
              IN  /\ errLogs' = coreLogs \cup variLogs
                  /\ IF HostBranch(env)
                     THEN /\ moduleExports' = HostExport(qorecss)
                          /\ phase' = "loaded"
                          /\ loadError' = <<>>
                          /\ UNCHANGED <<globalQorecss, domVars>>
                     ELSE IF BrowserBranch(env)
                     THEN /\ globalQorecss' = qorecss
                          /\ InjectCss
                          /\ phase' = IF thrown' THEN "failed" ELSE "loaded"
                          /\ loadError' = IF thrown' THEN <<"document is not defined">> ELSE <<>>
                          /\ UNCHANGED moduleExports
                     ELSE /\ phase' = "loaded"
                          /\ loadError' = <<>>
                          /\ UNCHANGED <<moduleExports, globalQorecss, domVars>>

\* Some holder of the object can call its accessors.
ObjectReachable == moduleExports.defined \/ globalQorecss.defined

\* qorecss.getStylesheet(): const result = safeResolve('./qore.css'); return result
GetStylesheet ==
  /\ ObjectReachable
  /\ UNCHANGED <<buildVars, perfVars>>
  /\ called' = "getStylesheet"
  /\ callRet' = safeResolve(DotQoreCss, env, cwd, disk)
  /\ errLogs' = safeResolveLogs(DotQoreCss, env, cwd, disk)
  /\ UNCHANGED <<env, cwd, disk, phase, moduleExports, globalQorecss, loadError, domVars>>

\* qorecss.getVariables(): const result = safeResolve('./variables.css'); return result
GetVariables ==
  /\ ObjectReachable
  /\ UNCHANGED <<buildVars, perfVars>>
  /\ called' = "getVariables"
  /\ callRet' = safeResolve(DotVariablesCss, env, cwd, disk)
  /\ errLogs' = safeResolveLogs(DotVariablesCss, env, cwd, disk)
  /\ UNCHANGED <<env, cwd, disk, phase, moduleExports, globalQorecss, loadError, domVars>>

\* The embedding program changes its working directory (process.chdir).
ChangeDir ==
  /\ env.req
  /\ UNCHANGED <<buildVars, perfVars>>
  /\ cwd' = IF cwd = ModuleDir THEN OtherDir ELSE ModuleDir
  /\ UNCHANGED <<env, disk, phase, moduleExports, globalQorecss, loadError,
                 called, callRet, errLogs, domVars>>

\* The hosts: every combination of the globals and modules index.js probes.
\* Without require there is no resolver and no module to load.
HostEnvs ==
  {e \in [win : BOOLEAN, mod : BOOLEAN, req : BOOLEAN,
          resolver : {"absent", "native", "throws"},
          pathLoads : BOOLEAN, fsLoads : BOOLEAN, dirname : BOOLEAN] :
     ~e.req => (e.resolver = "absent" /\ ~e.pathLoads /\ ~e.fsLoads)}

\* ------------------------------------------------- the build script
\* The texts the source stylesheet may hold.
SourceTexts == {"body{}", "p{}"}

\* The content hash: eight hexadecimal characters per processed text, the same
\* for the same text and different for different texts.
Hash(css) == IF css = "body{}" THEN "0a1b2c3d" ELSE "77526ae8"

\* The hash of an artifact an earlier build left behind.
OldHash == "deadbeef"

\* core.<hash>.min.css
Artifact(h) == <<"core", ".", h, ".", "min", ".", "css">>

\* core.min.css, the plain member of the family
PlainCore == <<"core", ".", "min", ".", "css">>

\* <artifact>.gz and <artifact>.br
Variant(f, ext) == f \o <<".", ext>>

\* The artifact a file name belongs to: the name without a .gz or .br ending.
ArtifactOf(f) ==
  IF Len(f) >= 2 /\ f[Len(f) - 1] = "." /\ f[Len(f)] \in {"gz", "br"}
  THEN SubSeq(f, 1, Len(f) - 2)
  ELSE f

\* The hashes a file name can carry.
HashTokens == {Hash(t) : t \in SourceTexts} \cup {OldHash}

\* The name is in the core(.hash)?.min.css family, compressed variants included.
InFamily(f) == ArtifactOf(f) = PlainCore \/ ArtifactOf(f) \in {Artifact(h) : h \in HashTokens}

\* Mutant of OldFiles: the cleanup finds nothing to delete.
OldFiles_None(fs, h, own) == {}

\* The files the cleanup deletes: every member of the family whose name is not
\* the target's.  The .gz and .br of the target itself are deleted as well
\* (own) or kept: the contract can be read both ways.
OldFiles(fs, h, own) ==
  {f \in fs : InFamily(f) /\ f # Artifact(h) /\ (own \/ ArtifactOf(f) # Artifact(h))}

\* How one build() call ended.
Outcome(b, h, src, err, met) == [by |-> b, hash |-> h, src |-> src, err |-> err, met |-> met]

\* build() is called: the source is read, processed (passed through when
\* offline) and hashed.
\* A test process calls build() again and again; of several processes started
\* side by side (node scripts/build.js), each calls it once.
MayStart(b) ==
  Cardinality(builders) > 1 => \A i \in 1..Len(returns) : returns[i].by # b

StartBuild(b) ==
  /\ pc[b] = "idle"
  /\ started < MaxBuilds
  /\ MayStart(b)
  /\ started' = started + 1
  /\ bHash' = [bHash EXCEPT ![b] = [hash |-> Hash(srcCss), src |-> srcCss]]
  /\ pc' = [pc EXCEPT ![b] = "list"]
  /\ bErrs' = [bErrs EXCEPT ![b] = {}]
  /\ UNCHANGED <<srcCss, files, hashRecord, indexLiteral, builders, bList, bPending, returns>>
  /\ UNCHANGED <<domVars, hostVars, perfVars>>

\* The output directory is listed and the old files are picked.
ListOld(b) ==
  /\ pc[b] = "list"
  /\ \E own \in BOOLEAN : bList' = [bList EXCEPT ![b] = OldFiles(files, bHash[b].hash, own)]
  /\ pc' = [pc EXCEPT ![b] = "clean"]
  /\ UNCHANGED <<srcCss, files, hashRecord, indexLiteral, builders, bHash, bPending, bErrs, started, returns>>
  /\ UNCHANGED <<domVars, hostVars, perfVars>>

\* How unlink(f) can end: "" for done; not found when the file is gone; a
\* file that is there can also be refused by the system.
UnlinkCodes(f, fs) == IF f \in fs THEN {"", "EACCES"} ELSE {"ENOENT"}

\* Mutant of Tolerated: no deletion error is passed over.
Tolerated_None(code) == FALSE

\* Mutant of Tolerated: every deletion error is passed over.
Tolerated_All(code) == TRUE

\* The deletion errors the cleanup passes over: not found only.
Tolerated(code) == code = "ENOENT"

\* One old file is deleted.  A file that is already gone is passed over; any
\* other error ends the build and goes to the caller.
UnlinkOld(b) ==
  /\ pc[b] = "clean"
  /\ \E f \in bList[b] : \E code \in UnlinkCodes(f, files) :
       IF code = ""
       THEN /\ files' = files \ {f}
            /\ bList' = [bList EXCEPT ![b] = bList[b] \ {f}]
            /\ UNCHANGED <<pc, bErrs, returns>>
       ELSE IF Tolerated(code)
       THEN /\ bErrs' = [bErrs EXCEPT ![b] = bErrs[b] \cup {code}]
            /\ bList' = [bList EXCEPT ![b] = bList[b] \ {f}]
            /\ UNCHANGED <<files, pc, returns>>
       ELSE /\ bErrs' = [bErrs EXCEPT ![b] = bErrs[b] \cup {code}]
            /\ returns' = Append(returns, Outcome(b, bHash[b].hash, bHash[b].src, code,
                                                  bErrs[b] \cup {code}))
            /\ pc' = [pc EXCEPT ![b] = "idle"]
            /\ bList' = [bList EXCEPT ![b] = {}]
            /\ UNCHANGED files
  /\ UNCHANGED <<srcCss, hashRecord, indexLiteral, builders, bHash, bPending, started>>
  /\ UNCHANGED <<domVars, hostVars, perfVars>>

\* Someone else removes a listed old file before the cleanup gets to it.
FileVanishes(b) ==
  /\ pc[b] = "clean"
  /\ \E f \in bList[b] \cap files : files' = files \ {f}
  /\ UNCHANGED <<srcCss, hashRecord, indexLiteral, builders, pc, bHash, bList, bPending,
                 bErrs, started, returns>>
  /\ UNCHANGED <<domVars, hostVars, perfVars>>

\* The cleanup is over: the hashed artifact is written.
WriteArtifact(b) ==
  /\ pc[b] = "clean"
  /\ bList[b] = {}
  /\ files' = files \cup {Artifact(bHash[b].hash)}
  /\ pc' = [pc EXCEPT ![b] = "persist"]
  /\ UNCHANGED <<srcCss, hashRecord, indexLiteral, builders, bHash, bList, bPending, bErrs, started, returns>>
  /\ UNCHANGED <<domVars, hostVars, perfVars>>

\* The hash is written to build.hash.
PersistHash(b) ==
  /\ pc[b] = "persist"
  /\ hashRecord' = bHash[b].hash
  /\ bPending' = [bPending EXCEPT ![b] = {"gz", "br"}]
  /\ pc' = [pc EXCEPT ![b] = "compress"]
  /\ UNCHANGED <<srcCss, files, indexLiteral, builders, bHash, bList, bErrs, started, returns>>
  /\ UNCHANGED <<domVars, hostVars, perfVars>>

\* One compressed variant is produced from the artifact; the two are produced
\* in either order.  Reading an artifact that is gone ends the build in error.
Compress(b) ==
  /\ pc[b] = "compress"
  /\ \E ext \in bPending[b] :
       IF Artifact(bHash[b].hash) \in files
       THEN /\ files' = files \cup {Variant(Artifact(bHash[b].hash), ext)}
            /\ bPending' = [bPending EXCEPT ![b] = bPending[b] \ {ext}]
            /\ pc' = [pc EXCEPT ![b] = IF bPending[b] = {ext} THEN "patch" ELSE "compress"]
            /\ UNCHANGED returns
       ELSE /\ returns' = Append(returns, Outcome(b, bHash[b].hash, bHash[b].src, "ENOENT", bErrs[b]))
            /\ pc' = [pc EXCEPT ![b] = "idle"]
            /\ UNCHANGED <<files, bPending>>
  /\ UNCHANGED <<srcCss, hashRecord, indexLiteral, builders, bHash, bList, bErrs, started>>
  /\ UNCHANGED <<domVars, hostVars, perfVars>>

\* The cssFile literal of index.js is replaced by the new file name.
PatchIndex(b) ==
  /\ pc[b] = "patch"
  /\ indexLiteral' = bHash[b].hash
  /\ pc' = [pc EXCEPT ![b] = "return"]
  /\ UNCHANGED <<srcCss, files, hashRecord, builders, bHash, bList, bPending, bErrs, started, returns>>
  /\ UNCHANGED <<domVars, hostVars, perfVars>>

\* build() returns the hash.
ReturnHash(b) ==
  /\ pc[b] = "return"
  /\ returns' = Append(returns, Outcome(b, bHash[b].hash, bHash[b].src, "", bErrs[b]))
  /\ pc' = [pc EXCEPT ![b] = "idle"]
  /\ UNCHANGED <<srcCss, files, hashRecord, indexLiteral, builders, bHash, bList, bPending, bErrs, started>>
  /\ UNCHANGED <<domVars, hostVars, perfVars>>

\* The developer edits qore.css.
EditSource ==
  /\ \E t \in SourceTexts \ {srcCss} : srcCss' = t
  /\ UNCHANGED <<files, hashRecord, indexLiteral, builders, pc, bHash, bList, bPending, bErrs, started, returns>>
  /\ UNCHANGED <<domVars, hostVars, perfVars>>

\* ------------------------------------------------- scripts/performance.js
\* const HISTORY_MAX = 50
HISTORY_MAX == 50
\* the request count run() uses when the argument is missing or out of range
DefaultCount == 5
\* the largest request count run() accepts from the command line
CountCeiling == 1000
\* {8} of the pattern readBuildHash tests the hash with
HashLength == 8

\* Largest MAX_CONCURRENCY the environment sets.
MaxConc == 5
\* Largest QUEUE_LIMIT the environment sets.
MaxQueue == 2

\* [a-f0-9]
LowerHex == {"0", "1", "2", "3", "4", "5", "6", "7", "8", "9", "a", "b", "c", "d", "e", "f"}

\* the characters String.prototype.trim removes, as far as they occur here
WhiteSpace == {" ", "\n"}

\* String.prototype.trim on a text given character by character
Trim(s) ==
  LET keep == {i \in 1..Len(s) : s[i] \notin WhiteSpace}
      lo == CHOOSE i \in keep : \A j \in keep : i <= j
      hi == CHOOSE i \in keep : \A j \in keep : j <= i
  IN  IF keep = {} THEN <<>> ELSE SubSeq(s, lo, hi)

\* a pattern that accepts any eight characters
HashTest_AnyChar(t) == Len(t) = HashLength

\* /^[a-f0-9]{8}$/.test(trimmed)
HashTest(t) == Len(t) = HashLength /\ \A i \in 1..Len(t) : t[i] \in LowerHex

\* build.hash: missing, present but not readable, or readable with some text
NoFile == [state |-> "absent", data |-> <<>>]
Unreadable == [state |-> "unreadable", data |-> <<>>]
TextFile(d) == [state |-> "present", data |-> d]

\* readBuildHash: the trimmed hash, or the empty string
readBuildHash(f) ==
  IF f.state # "present"
    THEN <<>>
    ELSE IF HashTest(Trim(f.data)) THEN Trim(f.data) ELSE <<>>

\* fileName of run(), character by character inside the hash
FileNameFor(hash) ==
  IF hash = <<>> THEN PlainCore ELSE <<"core", ".">> \o hash \o <<".", "min", ".", "css">>

\* the two CDN endpoints run() measures, in this order
Urls == <<"jsdelivr", "github-pages">>

\* requestCount of run(): parseInt of the first argument (NaN when there is
\* none), the range check with its default, and the cap by the environment limit
RequestCountFor(args, maxc) ==
  LET ranged == IF args = <<>> \/ args[1] < 1 \/ args[1] > CountCeiling
                  THEN DefaultCount ELSE args[1]
      atLeastOne == IF ranged < 1 THEN 1 ELSE ranged
  IN  IF atLeastOne > maxc THEN maxc ELSE atLeastOne

\* a batch of everything that is left
BatchSize_Uncapped(limit, count, i) == count - i

\* batchSize = Math.min(QUEUE_LIMIT, count - i)
BatchSize(limit, count, i) == IF limit < count - i THEN limit ELSE count - i

\* performance-results.json: missing, not JSON, JSON that is no array, or an array of entries
NoHistory == [kind |-> "absent", items |-> <<>>]
BrokenHistory == [kind |-> "unparsable", items |-> <<>>]
NonArrayHistory == [kind |-> "nonarray", items |-> <<>>]
ArrayHistory(h) == [kind |-> "array", items |-> h]

\* history of run() before the push: the parsed file, [] when missing or unparsable
ParseHistory(f) == IF f.kind = "array" THEN f.items ELSE <<>>

\* no trimming
TrimHistory_Keep(h) == h

\* history.splice(0, history.length - HISTORY_MAX) when the history is too long
TrimHistory(h) ==
  IF Len(h) > HISTORY_MAX THEN SubSeq(h, Len(h) - HISTORY_MAX + 1, Len(h)) ELSE h

\* {timestamp, results}
Entry(t, r) == [timestamp |-> t, results |-> r]

\* the errors a timing request fails with
RequestErrors == {"ETIMEDOUT", "HTTP 500"}

\* the error of history.push on a value that is no array
TypeError == "TypeError"

\* a failure that is swallowed
Rejected_Swallowed(e) == FALSE

\* Promise.all rejects as soon as one getTime rejects; measureUrl and run rethrow
Rejected(e) == TRUE

\* measureUrl begins a batch for URL u at loop index i: batchSize getTime calls are made
IssueBatch(u, i, count) ==
  /\ urlIx' = u
  /\ batchI' = i
  /\ inFlight' = inFlight + BatchSize(QUEUE_LIMIT, count, i)
  /\ issued' = [issued EXCEPT ![u] = @ + BatchSize(QUEUE_LIMIT, count, i)]

\* node scripts/performance.js [--json] [count]: run() starts and waits for build.hash
Run ==
  /\ runPc = "idle"
  /\ \E j \in BOOLEAN, a \in {<<>>, <<0>>, <<1>>, <<3>>, <<MaxConc + 1>>, <<CountCeiling + 1>>} :
       argv' = [json |-> j, args |-> a]
  /\ runPc' = "readBuildHash"
  /\ prior' = historyFile
  /\ UNCHANGED <<MAX_CONCURRENCY, QUEUE_LIMIT, CODEX, buildHashFile, historyFile, now,
                 fileName, requestCount, urlIx, batchI, inFlight, issued, results,
                 rejection, failures>>
  /\ UNCHANGED <<domVars, hostVars, buildVars>>

\* build.hash has been read: run() settles the file name and the request
\* count and measureUrl starts the first batch for the first URL
HashRead ==
  /\ runPc = "readBuildHash"
  /\ fileName' = FileNameFor(readBuildHash(buildHashFile))
  /\ requestCount' = RequestCountFor(argv.args, MAX_CONCURRENCY)
  /\ IssueBatch(1, 0, requestCount')
  /\ runPc' = "batch"
  /\ UNCHANGED <<MAX_CONCURRENCY, QUEUE_LIMIT, CODEX, argv, buildHashFile, historyFile,
                 now, results, rejection, failures, prior>>
  /\ UNCHANGED <<domVars, hostVars, buildVars>>

\* one getTime call resolves
RequestResolves ==
  /\ inFlight > 0
  /\ inFlight' = inFlight - 1
  /\ UNCHANGED <<MAX_CONCURRENCY, QUEUE_LIMIT, CODEX, argv, buildHashFile, historyFile,
                 now, runPc, fileName, requestCount, urlIx, batchI, issued, results,
                 rejection, failures, prior>>
  /\ UNCHANGED <<domVars, hostVars, buildVars>>

\* one getTime call rejects (never offline): the first rejection of a batch
\* ends run(), with the requests still in flight left to finish
RequestRejects ==
  /\ inFlight > 0
  /\ ~CODEX
  /\ \E e \in RequestErrors :
       /\ failures' = Append(failures, e)
       /\ IF runPc = "batch" /\ Rejected(e)
            THEN runPc' = "rejected" /\ rejection' = e
            ELSE UNCHANGED <<runPc, rejection>>
  /\ inFlight' = inFlight - 1
  /\ UNCHANGED <<MAX_CONCURRENCY, QUEUE_LIMIT, CODEX, argv, buildHashFile, historyFile,
                 now, fileName, requestCount, urlIx, batchI, issued, results, prior>>
  /\ UNCHANGED <<domVars, hostVars, buildVars>>

\* the history step of run(), after the last URL: r is the results object
Persist(r) ==
  IF ~argv.json
    THEN runPc' = "resolved" /\ UNCHANGED <<historyFile, rejection>>
    ELSE IF historyFile.kind = "nonarray"
      THEN runPc' = "rejected" /\ rejection' = TypeError /\ UNCHANGED historyFile
      ELSE /\ historyFile' = ArrayHistory(TrimHistory(Append(ParseHistory(historyFile), Entry(now, r))))
           /\ runPc' = "resolved"
           /\ UNCHANGED rejection

\* every getTime call of the batch has resolved: the next batch, the next
\* URL, or the end of run()
BatchResolves ==
  /\ runPc = "batch"
  /\ inFlight = 0
  /\ IF batchI + QUEUE_LIMIT < requestCount
       THEN /\ IssueBatch(urlIx, batchI + QUEUE_LIMIT, requestCount)
            /\ UNCHANGED <<results, runPc, historyFile, rejection>>
       ELSE /\ results' = IF argv.json THEN results \cup {Urls[urlIx]} ELSE results
            /\ IF urlIx < Len(Urls)
                 THEN /\ IssueBatch(urlIx + 1, 0, requestCount)
                      /\ UNCHANGED <<runPc, historyFile, rejection>>
                 ELSE /\ Persist(results')
                      /\ UNCHANGED <<urlIx, batchI, inFlight, issued>>
  /\ UNCHANGED <<MAX_CONCURRENCY, QUEUE_LIMIT, CODEX, argv, buildHashFile, now, fileName,
                 requestCount, failures, prior>>
  /\ UNCHANGED <<domVars, hostVars, buildVars>>

\* the texts build.hash is tried with
HashFileTexts ==
  { <<"0", "a", "1", "b", "2", "c", "3", "d">>,
    <<"0", "a", "1", "b", "2", "c", "3", "d", "\n">>,
    <<" ", "0", "a", "1", "b", "2", "c", "3", "d", " ", "\n">>,
    <<"0", "A", "1", "B", "2", "C", "3", "D">>,
    <<"0", "a", "1", "b", "2", "c", "3">>,
    <<"0", "a", "1", "b", "2", "c", "3", "d", "e">>,
    <<"0", "a", "1", "b", " ", "2", "c", "3", "d">>,
    <<"0", "a", "1", "b", "2", "c", "3", "d", "\n", "x">>,
    <<".", ".", "/", "e", "t", "c", "/", "x">>,
    <<>> }

\* entries written by n earlier runs, stamped 1..n
EarlierEntries(n) == [j \in 1..n |-> Entry(j, {Urls[1], Urls[2]})]

\* the lengths performance-results.json is tried with
HistoryLengths == {0, 1, HISTORY_MAX - 1, HISTORY_MAX, HISTORY_MAX + 1}

\* Nobody runs the timing script.
PerfIdle ==
  /\ MAX_CONCURRENCY = 50
  /\ QUEUE_LIMIT = 5
  /\ CODEX = FALSE
  /\ argv = [json |-> FALSE, args |-> <<>>]
  /\ buildHashFile = NoFile
  /\ historyFile = NoHistory
  /\ now = 0
  /\ runPc = "idle"
  /\ fileName = <<>>
  /\ requestCount = 0
  /\ urlIx = 0
  /\ batchI = 0
  /\ inFlight = 0
  /\ issued = [u \in 1..Len(Urls) |-> 0]
  /\ results = {}
  /\ rejection = ""
  /\ failures = <<>>
  /\ prior = NoHistory

\* What earlier builds may have left in the output directory.
LeftBehind ==
  {Artifact(OldHash), Variant(Artifact(OldHash), "gz"), Variant(Artifact(OldHash), "br"),
   PlainCore}

\* A directory nobody builds in.
BuildIdle ==
  /\ srcCss = "body{}"
  /\ files = {qoreCss}
  /\ hashRecord = ""
  /\ indexLiteral = cssFile[3]
  /\ builders = {}
  /\ pc = <<>>
  /\ bHash = <<>>
  /\ bList = <<>>
  /\ bPending = <<>>
  /\ bErrs = <<>>
  /\ started = 0
  /\ returns = <<>>

\* No page: the build script runs outside a browser.
PageIdle ==
  /\ docState = "nodoc"
  /\ scripts = <<>>
  /\ currentScript = 0
  /\ elems = <<>>
  /\ head = <<>>
  /\ body = {}
  /\ injections = 0
  /\ op = "init"
  /\ target = 0
  /\ ret = 0
  /\ thrown = FALSE

\* A page served to a browser: the host Spec looks at, where nothing is evaluated.
HostIdle ==
  /\ env = [win |-> TRUE, mod |-> FALSE, req |-> FALSE, resolver |-> "absent",
            pathLoads |-> FALSE, fsLoads |-> FALSE, dirname |-> FALSE]
  /\ cwd = ModuleDir
  /\ disk = FilesIn(ModuleDir)
  /\ phase = "fresh"
  /\ moduleExports = Undefined
  /\ globalQorecss = Undefined
  /\ loadError = <<>>
  /\ called = "none"
  /\ callRet = NoCall
  /\ errLogs = {}

\* A page as its author wrote it, before any call of injectCss.
Init ==
  /\ docState \in {"ok", "nohead", "nodoc"}
  /\ \E sd \in ScriptDocs :
       /\ scripts = sd[1]
       /\ currentScript = sd[2]
       /\ docState # "ok" => sd[1] = <<>>
  /\ \E hs \in SeqsUpTo(InitHrefs, MaxInitLinks), bs \in BodyChoices :
       /\ Len(hs) + Len(bs) <= MaxInitLinks
       /\ docState # "ok" => (hs = <<>> /\ bs = <<>>)
       /\ elems = [i \in 1..(Len(hs) + Len(bs)) |->
                     IF i <= Len(hs) THEN PageLink(hs[i]) ELSE PageLink(bs[i - Len(hs)])]
       /\ head = [i \in 1..Len(hs) |-> i]
       /\ body = {Len(hs) + i : i \in 1..Len(bs)}
  /\ injections = 0
  /\ op = "init"
  /\ target = 0
  /\ ret = 0
  /\ thrown = FALSE
  /\ HostIdle
  /\ BuildIdle
  /\ PerfIdle

\* Before index.js is evaluated in some host; a browser page has no qoreCSS link yet.
LoadInit ==
  /\ env \in HostEnvs
  /\ cwd \in {ModuleDir, OtherDir}
  /\ disk \in SUBSET (FilesIn(ModuleDir) \cup FilesIn(OtherDir))
  /\ ~env.req => (cwd = ModuleDir /\ disk = FilesIn(ModuleDir))
  /\ phase = "fresh"
  /\ moduleExports = Undefined
  /\ globalQorecss = Undefined
  /\ loadError = <<>>
  /\ called = "none"
  /\ callRet = NoCall
  /\ errLogs = {}
  /\ docState \in (IF env.win THEN {"ok", "nohead", "nodoc"} ELSE {"nodoc"})
  /\ scripts = <<>>
  /\ currentScript = 0
  /\ elems = <<>>
  /\ head = <<>>
  /\ body = {}
  /\ injections = 0
  /\ op = "init"
  /\ target = 0
  /\ ret = 0
  /\ thrown = FALSE
  /\ BuildIdle
  /\ PerfIdle

LoadNext ==
  \/ EvalModule
  \/ GetStylesheet
  \/ GetVariables
  \/ ChangeDir

LoadSpec == LoadInit /\ [][LoadNext]_vars

\* injectCss called in a page, whatever the host did before.
CallInjectCss == InjectCss /\ UNCHANGED offPageVars

Next ==
  \/ CallInjectCss
  \/ \E i \in 1..Len(elems) : LoadError(i)
  \/ \E i \in 1..Len(elems) : InvokeStoredHandler(i)
  \/ \E i \in 1..Len(elems) : PageSetHref(i)

Spec == Init /\ [][Next]_vars

\* A page with an empty head and any scripts: what injectCss takes as the
\* base path is seen on the links it creates.  The current script, when
\* there is one, is a script that could be fetched or an inline one.
ScriptInit ==
  /\ docState = "ok"
  /\ scripts \in SeqsUpTo(ScriptKinds, MaxScripts)
  /\ currentScript \in {0} \cup {i \in 1..Len(scripts) : scripts[i].valid}
  /\ elems = <<>>
  /\ head = <<>>
  /\ body = {}
  /\ injections = 0
  /\ op = "init"
  /\ target = 0
  /\ ret = 0
  /\ thrown = FALSE
  /\ HostIdle
  /\ BuildIdle
  /\ PerfIdle

ScriptSpec == ScriptInit /\ [][Next]_vars

\* One developer machine: a source stylesheet, whatever earlier builds left
\* behind, and build() called again and again, one call after the other.
BuildInit ==
  /\ srcCss \in SourceTexts
  /\ \E left \in SUBSET LeftBehind : files = {qoreCss} \cup left
  /\ hashRecord \in {"", OldHash}
  /\ indexLiteral = cssFile[3]
  /\ builders = {1}
  /\ pc = [b \in builders |-> "idle"]
  /\ bHash = [b \in builders |-> [hash |-> "", src |-> ""]]
  /\ bList = [b \in builders |-> {}]
  /\ bPending = [b \in builders |-> {}]
  /\ bErrs = [b \in builders |-> {}]
  /\ started = 0
  /\ returns = <<>>
  /\ PageIdle
  /\ HostIdle
  /\ PerfIdle

BuildNext ==
  \/ \E b \in builders : StartBuild(b)
  \/ \E b \in builders : ListOld(b)
  \/ \E b \in builders : UnlinkOld(b)
  \/ \E b \in builders : FileVanishes(b)
  \/ \E b \in builders : WriteArtifact(b)
  \/ \E b \in builders : PersistHash(b)
  \/ \E b \in builders : Compress(b)
  \/ \E b \in builders : PatchIndex(b)
  \/ \E b \in builders : ReturnHash(b)
  \/ EditSource

BuildSpec == BuildInit /\ [][BuildNext]_vars

\* Two build() calls that may overlap, as when two terminals or two CI jobs
\* build in the same directory; nothing locks the directory.
ConcInit ==
  /\ srcCss = "body{}"
  /\ \E left \in {{}, LeftBehind \ {PlainCore}, LeftBehind} : files = {qoreCss} \cup left
  /\ hashRecord = IF Artifact(OldHash) \in files THEN OldHash ELSE ""
  /\ indexLiteral = cssFile[3]
  /\ builders = {1, 2}
  /\ pc = [b \in builders |-> "idle"]
  /\ bHash = [b \in builders |-> [hash |-> "", src |-> ""]]
  /\ bList = [b \in builders |-> {}]
  /\ bPending = [b \in builders |-> {}]
  /\ bErrs = [b \in builders |-> {}]
  /\ started = 0
  /\ returns = <<>>
  /\ PageIdle
  /\ HostIdle
  /\ PerfIdle

ConcSpec == ConcInit /\ [][BuildNext]_vars

\* The project directory before the timing script runs: the environment has
\* set the two limits and the offline switch, build.hash and
\* performance-results.json are whatever earlier work left.
PerfInit ==
  /\ MAX_CONCURRENCY \in {2, MaxConc}
  /\ QUEUE_LIMIT \in 1..MaxQueue
  /\ CODEX \in BOOLEAN
  /\ argv = [json |-> FALSE, args |-> <<>>]
  /\ buildHashFile \in {NoFile, Unreadable} \cup {TextFile(d) : d \in HashFileTexts}
  /\ historyFile \in {NoHistory, BrokenHistory, NonArrayHistory}
                      \cup {ArrayHistory(EarlierEntries(n)) : n \in HistoryLengths}
  /\ now = HISTORY_MAX + 2
  /\ runPc = "idle"
  /\ fileName = <<>>
  /\ requestCount = 0
  /\ urlIx = 0
  /\ batchI = 0
  /\ inFlight = 0
  /\ issued = [u \in 1..Len(Urls) |-> 0]
  /\ results = {}
  /\ rejection = ""
  /\ failures = <<>>
  /\ prior = historyFile
  /\ PageIdle
  /\ HostIdle
  /\ BuildIdle

PerfNext ==
  \/ Run
  \/ HashRead
  \/ RequestResolves
  \/ RequestRejects
  \/ BatchResolves

PerfSpec == PerfInit /\ [][PerfNext]_vars

\* ------------------------------------------------------- claim vocabulary
\* The identities held by a head.
LinksOf(h) == {h[k] : k \in 1..Len(h)}

\* l is a link for the current hashed file: the file its URL names is cssFile.
IsTargetLink(l) == UrlFileName(l.attr) = cssFile

\* l references the plain fallback file qore.css.
IsFallbackLink(l) == UrlFileName(l.attr) = qoreCss

\* the file l's URL names is in the core(.hash)?.min.css family
IsCoreFamily(l) == coreRegexTest(UrlFileName(l.attr))

\* This step is a call of injectCss.
InjectStep == injections' = injections + 1

\* Links that were in the document and are in neither head nor body any more.
Removed == (1..Len(elems)) \ (LinksOf(head) \cup body)

\* C1: two injectCss calls in a row, on a document with a head: after the
\* second the head holds exactly one link for the current hashed file and as
\* many links as after the first.
C1_InjectionIdempotent ==
  [][(docState = "ok" /\ op = "inject" /\ InjectStep)
       => /\ Len(head') = Len(head)
          /\ Cardinality({i \in LinksOf(head') : IsTargetLink(elems'[i])}) = 1]_vars

\* C2: when the head already holds a link for the current hashed file,
\* injectCss returns such a link that was already there, creates no element
\* and modifies none (href and handler of every link stay as they were).
C2_ReusesExistingLink ==
  [][(docState = "ok" /\ InjectStep
      /\ \E i \in LinksOf(head) : IsTargetLink(elems[i]))
       => /\ ret' \in LinksOf(head)
          /\ IsTargetLink(elems[ret'])
          /\ elems' = elems]_vars

\* C3: a link of the head whose file is core.<other-hash>.min.css or
\* core.min.css, and not the target file, is gone after injectCss, and the
\* core-family links left in the head are for the current hash, at most one.
C3_StaleGenerationsReplaced ==
  [][(docState = "ok" /\ InjectStep)
       => \A i \in LinksOf(head) :
            (IsCoreFamily(elems[i]) /\ ~IsTargetLink(elems[i]))
              => /\ i \notin LinksOf(head')
                 /\ \A j \in LinksOf(head') :
                      IsCoreFamily(elems'[j]) => IsTargetLink(elems'[j])
                 /\ Cardinality({j \in LinksOf(head') : IsCoreFamily(elems'[j])}) <= 1]_vars

\* C4: after an injectCss call the head never holds a link to the plain
\* fallback file qore.css together with a link for the current hashed file.
C4_NoFallbackBesideHashed ==
  op = "inject"
    => ~(/\ \E i \in LinksOf(head) : IsFallbackLink(elems[i])
         /\ \E j \in LinksOf(head) : IsTargetLink(elems[j]))

\* C4 witness: injectCss returned a hashed link the page already had, and a
\* page link to qore.css that was in the head has been removed.
C4_Witness ==
  /\ op = "inject" /\ ret # 0
  /\ ret \in LinksOf(head) /\ IsTargetLink(elems[ret]) /\ ~elems[ret].injected
  /\ \E r \in Removed : IsFallbackLink(elems[r]) /\ ~elems[r].injected

\* C5: a load failure delivered to an injected link whose handler is
\* attached sets its href to <base path>qore.css and detaches the handler; a
\* load failure delivered once the handler is detached changes nothing of the
\* link; and a link to qore.css appears in the head only by the handler
\* running on that link.
C5_OneShotHandler ==
  [][/\ \A i \in 1..Len(elems) :
          (op' = "error" /\ target' = i /\ elems[i].injected)
            => IF elems[i].onerror
               THEN /\ elems'[i].attr = BasePath(scripts, currentScript) \o qoreCss
                    /\ ~elems'[i].onerror
               ELSE elems'[i] = elems[i]
     /\ \A i \in LinksOf(head') :
          (/\ (i \notin LinksOf(head) \/ elems'[i] # elems[i])
           /\ IsFallbackLink(elems'[i])
           /\ ~(i \in LinksOf(head) /\ IsFallbackLink(elems[i])))
            => (op' \in {"error", "stored"} /\ target' = i /\ elems[i].injected)]_vars

\* C5 witness: the handler of an injected link has fired and is detached, the
\* page then set the href to again.css, and a further load failure was
\* delivered to the link and left that href in place.
C5_Witness ==
  \E i \in LinksOf(head) :
    /\ elems[i].injected /\ ~elems[i].onerror
    /\ op = "error" /\ target = i
    /\ elems[i].attr = HrefAgain

\* C6: once the handler has fired and detached itself, calling the stored
\* handler function again leaves the link's href as it is.
C6_StoredHandlerInert ==
  [][\A i \in 1..Len(elems) :
       (op' = "stored" /\ target' = i /\ elems[i].injected /\ ~elems[i].onerror)
         => elems'[i].attr = elems[i].attr]_vars

\* The directory of the first script carrying data-qorecss.
MarkedBase ==
  LET m == FirstIn({i \in 1..Len(scripts) : scripts[i].marked})
  IN  SubSeq(scripts[m].src, 1, LastIndexOf(scripts[m].src, "/"))

\* C7: with no current script and a script carrying data-qorecss in the
\* document, the base path of every link injectCss creates is the directory
\* of the marked script.
C7_MarkedScriptWins ==
  (currentScript = 0 /\ \E m \in 1..Len(scripts) : scripts[m].marked)
    => \A i \in 1..Len(elems) :
         elems[i].injected => elems[i].hbase = MarkedBase

\* C8 as claimed: after an injectCss call at most one link for the current
\* hashed file exists in head and body together.
C8_AtMostOneInDocument ==
  op = "inject"
    => Cardinality({i \in LinksOf(head) \cup body : IsTargetLink(elems[i])}) <= 1

\* C8 as amended: after an injectCss call at most one link for the current
\* hashed file exists in the head.
C8_AtMostOneInHead ==
  op = "inject"
    => Cardinality({i \in LinksOf(head) : IsTargetLink(elems[i])}) <= 1

\* C8 witness: after an injectCss call one link for the hashed file is in the
\* head and a duplicate the page had put in the head has been removed.
C8_Witness ==
  /\ op = "inject"
  /\ Cardinality({i \in LinksOf(head) : IsTargetLink(elems[i])}) = 1
  /\ \E r \in Removed : IsTargetLink(elems[r]) /\ ~elems[r].injected

\* C9: injectCss leaves every link of the head whose file is neither in the
\* core(.hash)?.min.css family nor qore.css in the head and unchanged.
C9_UnrelatedUntouched ==
  [][InjectStep
       => \A i \in LinksOf(head) :
            (~IsCoreFamily(elems[i]) /\ ~IsFallbackLink(elems[i]))
              => (i \in LinksOf(head') /\ elems'[i] = elems[i])]_vars

\* C10: no exception leaves injectCss, whatever the state of the document.
C10_NoExceptionEscapes == ~thrown

\* ------------------------------------------------- claims about the host
\* The evaluation ended in safeResolve, before any branch was looked at.
ResolutionFailed ==
  phase = "failed" /\ loadError # <<>> /\ loadError[1] = "file not found: "

\* The module was evaluated and its two paths were resolved.
Evaluated == phase # "fresh" /\ ~ResolutionFailed

C12_ServerSideMarksHost ==
  /\ moduleExports.serverSide <=> (Evaluated /\ HostBranch(env))
  /\ moduleExports.defined => moduleExports.serverSide
  /\ ~globalQorecss.serverSide

\* A host evaluation exported the flagged object.
C12_Witness ==
  phase = "loaded" /\ moduleExports.defined /\ moduleExports.serverSide /\ ~env.win

\* The package's files are where it was installed.
PackageIntact == FilesIn(ModuleDir) \subseteq disk

\* C13: with neither module.exports nor a window, evaluating the module is
\* inert whatever else the host offers: nothing is exported, nothing is
\* injected and no error is raised (the package's own files being in place).
C13_InertWithoutBranch ==
  (phase # "fresh" /\ ~env.win /\ ~env.mod /\ PackageIntact) =>
    /\ phase = "loaded"
    /\ loadError = <<>>
    /\ ~moduleExports.defined
    /\ ~globalQorecss.defined
    /\ injections = 0

\* This step is a call of getStylesheet or getVariables.
AccessorStep == phase' = phase /\ cwd' = cwd /\ called' # "none"

\* This step is the evaluation of the module.
EvalStep == phase = "fresh" /\ phase' # "fresh"

\* The literal the accessor called in this step resolves.
CalledFile == IF called' = "getStylesheet" THEN DotQoreCss ELSE DotVariablesCss

\* The host has no require.resolve and has fs.existsSync.
CheckedFallback == ~HasResolver(env) /\ HasFsModule(env)

\* What C14 says of a call of an accessor.
C14_Call ==
  (AccessorStep /\ CheckedFallback) =>
    LET abs == FallbackPath(CalledFile, env, cwd)
    IN  IF ExistsSync(abs, cwd, disk)
        THEN callRet' = Returned(abs)
        ELSE callRet' = Threw(<<"file not found: ">> \o abs)

\* What C14 says of the evaluation of the module.
C14_Load ==
  (EvalStep /\ CheckedFallback) =>
    LET absCore == FallbackPath(DotQoreCss, env, cwd)
        absVari == FallbackPath(DotVariablesCss, env, cwd)
        missing == IF ~ExistsSync(absCore, cwd, disk) THEN absCore ELSE absVari
    IN  IF ExistsSync(absCore, cwd, disk) /\ ExistsSync(absVari, cwd, disk)
        THEN loadError' = <<>> \/ loadError'[1] # "file not found: "
        ELSE /\ phase' = "failed"
             /\ loadError' = <<"file not found: ">> \o missing
             /\ ~moduleExports'.defined
             /\ ~globalQorecss'.defined
             /\ injections' = 0

\* C14: without the native resolver and with the filesystem check, safeResolve
\* returns the computed fallback path when that path exists and throws "file
\* not found: <computed path>" when it does not; an evaluation of the module
\* in which one of the two paths does not exist fails with that error and
\* exports and injects nothing.
C14_CheckedFallback == [][C14_Call /\ C14_Load]_vars

\* A load failed on the missing fallback path, as in the test with an empty
\* temporary module directory.
C14_Witness ==
  /\ CheckedFallback /\ HasPathModule(env) /\ env.dirname
  /\ phase = "failed"
  /\ loadError = <<"file not found: ">> \o RequireResolve(DotQoreCss)

\* C15: a fallback of safeResolve throws only when the requested file is
\* really missing next to the module; a host that merely lacks a capability
\* never makes the load fail while the package's files are in its directory.
C15_ThrowsOnlyWhenMissing == ResolutionFailed => ~PackageIntact

\* What C16 says of a call of an accessor.
C16_Call ==
  AccessorStep =>
    IF NativeResolves(CalledFile, env, disk)
    THEN callRet' = Returned(RequireResolve(CalledFile))
    ELSE /\ callRet' = safeResolve(CalledFile, [env EXCEPT !.resolver = "absent"], cwd, disk)
         /\ callRet'.kind = "throw" => callRet'.msg[1] = "file not found: "
         /\ HasResolver(env) => "safeResolve failed" \in errLogs'

\* What C16 says of the evaluation of the module, which calls safeResolve twice.
C16_Load ==
  EvalStep =>
    /\ \/ loadError' \in {<<>>, <<"document is not defined">>}
       \/ loadError'[1] = "file not found: "
    /\ (NativeResolves(DotQoreCss, env, disk) /\ NativeResolves(DotVariablesCss, env, disk))
         => (loadError' = <<>> \/ loadError'[1] # "file not found: ")
    /\ (HasResolver(env) /\ ~NativeResolves(DotQoreCss, env, disk))
         => "safeResolve failed" \in errLogs'

\* C16: safeResolve never lets a failure of the native resolver out.  When
\* require.resolve is there and succeeds, its result is returned; when it
\* throws or is not there, the failure is only logged and the call ends as it
\* ends in the same host without a resolver.
C16_ResolverFailureContained == [][C16_Call /\ C16_Load]_vars

\* require.resolve threw, was logged, and the call returned the fallback path.
C16_Witness ==
  /\ called = "getStylesheet" /\ env.resolver = "throws"
  /\ callRet = Returned(RequireResolve(DotQoreCss))
  /\ "safeResolve failed" \in errLogs

\* C17: in the fallback branch with the module's directory unknown
\* (__dirname not a string), safeResolve returns the requested relative path
\* unchanged, with or without the real path module.
C17_UnknownDirKeepsPath ==
  [][(AccessorStep /\ ~env.dirname /\ ~NativeResolves(CalledFile, env, disk))
       => callRet' = Returned(CalledFile)]_vars

\* A host with require and module.exports where node:path cannot be loaded,
\* require has no resolve and __dirname is known.
TestHost ==
  env.req /\ ~env.pathLoads /\ ~HasResolver(env) /\ env.dirname /\ ~env.win /\ env.mod

\* C18: with require present, node:path not loadable and no native resolver,
\* safeResolve returns its input instead of throwing although __dirname is
\* known: the module loads, coreCss is './qore.css' and variablesCss is
\* './variables.css' (the package's files being in place).
C18_StubKeepsInput ==
  (phase # "fresh" /\ TestHost /\ PackageIntact) =>
    /\ phase = "loaded"
    /\ moduleExports.coreCss = DotQoreCss
    /\ moduleExports.variablesCss = DotVariablesCss

\* The object an importer or a page holds.
HeldObject == IF moduleExports.defined THEN moduleExports ELSE globalQorecss

\* C19: at every call after the load, getStylesheet() returns the coreCss
\* property and getVariables() the variablesCss property of the object, also
\* when the working directory changed in between.
C19_AccessorsMatchProperties ==
  [][AccessorStep =>
       callRet' = Returned(IF called' = "getStylesheet"
                           THEN HeldObject.coreCss
                           ELSE HeldObject.variablesCss)]_vars

\* ------------------------------------------------- claims about the build
\* The hashed artifacts in the output directory (not their variants).
HashedArtifacts == {f \in files : \E h \in HashTokens : f = Artifact(h)}

\* The members of the core family in the output directory.
FamilyFiles == {f \in files : InFamily(f)}

\* The last two build() calls succeeded on the same source text, and nothing
\* has been started since the second returned.
BuiltTwiceUnchanged ==
  /\ Len(returns) >= 2
  /\ started = Len(returns)
  /\ returns[Len(returns)].err = "" /\ returns[Len(returns) - 1].err = ""
  /\ returns[Len(returns)].src = returns[Len(returns) - 1].src

\* C20: the build is idempotent.  After build() ran twice in a row on an
\* unchanged source stylesheet, both calls returned the same hash and the
\* output directory holds exactly one hashed artifact, core.<hash>.min.css for
\* that hash, with its .gz and .br variants and no other file of the family.
C20_BuildIdempotent ==
  BuiltTwiceUnchanged =>
    LET h == returns[Len(returns)].hash
    IN  /\ returns[Len(returns) - 1].hash = h
        /\ HashedArtifacts = {Artifact(h)}
        /\ FamilyFiles = {Artifact(h), Variant(Artifact(h), "gz"), Variant(Artifact(h), "br")}

\* Two builds in a row on the same text have returned: the record names the
\* hash, the artifact of the first call is still there, no older one is.
C20_Witness ==
  /\ BuiltTwiceUnchanged
  /\ hashRecord = returns[Len(returns)].hash
  /\ Artifact(returns[1].hash) \in files
  /\ Artifact(OldHash) \notin files

\* This step ends a build() call.
ReturnStep == Len(returns') = Len(returns) + 1

\* What C21 says of the moment a call ends.
C21_AtReturn ==
  ReturnStep =>
    LET r == returns'[Len(returns')]
    IN  /\ r.err = "" => (r.met \subseteq {"ENOENT"} /\ Artifact(r.hash) \in files')
        /\ r.err # "" => (r.err # "ENOENT" /\ r.err \in r.met /\ files' = files)

\* What C21 says of a deletion: after a not-found the call goes on, after any
\* other error it has ended.
C21_AtUnlink ==
  \A b \in builders :
    bErrs'[b] \ bErrs[b] # {} =>
      IF bErrs'[b] \subseteq {"ENOENT"}
      THEN pc'[b] = "clean" /\ returns' = returns
      ELSE /\ pc'[b] = "idle"
           /\ ReturnStep
           /\ returns'[Len(returns')].by = b
           /\ returns'[Len(returns')].err \in bErrs'[b] \ {"ENOENT"}

\* C21: the cleanup is race tolerant.  A deletion that fails with not found,
\* the file having disappeared between listing and deletion, is passed over:
\* the build goes on, returns the new hash, and the new hashed artifact
\* exists.  Any other deletion error ends the build at once and is what the
\* caller gets.
C21_RaceTolerantCleanup == [][C21_AtReturn /\ C21_AtUnlink]_vars

\* A build whose cleanup met a file already gone has returned its hash.
C21_Witness ==
  /\ returns # <<>>
  /\ returns[Len(returns)].err = ""
  /\ returns[Len(returns)].met = {"ENOENT"}
  /\ Artifact(returns[Len(returns)].hash) \in files

\* Every build() call that was started has ended.
AllReturned == started = Len(returns) /\ \A b \in builders : pc[b] = "idle"

\* The source texts read by the calls so far, ended or running.
SourcesRead ==
  {returns[i].src : i \in 1..Len(returns)} \cup {bHash[b].src : b \in {x \in builders : pc[x] # "idle"}}

\* The calls all read the same source text, and no deletion was refused.
SameSourceNoRefusal ==
  /\ Cardinality(SourcesRead) <= 1
  /\ \A i \in 1..Len(returns) : "EACCES" \notin returns[i].met
  /\ \A b \in builders : "EACCES" \notin bErrs[b]

Measured(u) == urlIx > u \/ (urlIx = u /\ runPc = "resolved")

\* A step that makes getTime calls starts with none in flight and makes at
\* most QUEUE_LIMIT of them.
C23_Batch ==
  issued' # issued =>
    /\ inFlight = 0
    /\ \A u \in 1..Len(Urls) : issued'[u] - issued[u] <= QUEUE_LIMIT

\* After the step at most QUEUE_LIMIT calls are in flight, and every URL
\* that has been measured got exactly requestCount calls.
C23_CapAndCount ==
  /\ inFlight' <= QUEUE_LIMIT'
  /\ \A u \in 1..Len(Urls) : Measured(u)' => issued'[u] = requestCount'

\* C23: during measureUrl never more than QUEUE_LIMIT timing requests are in
\* flight: they are issued in batches of at most QUEUE_LIMIT, a batch is
\* issued only when no request of an earlier batch is still in flight, and a
\* measurement that succeeds has issued exactly count requests.
C23_BatchedRequests == [][C23_Batch /\ C23_CapAndCount]_vars

\* A run that succeeded with more requests per URL than one batch holds, the
\* last batch a short one.
C23_Witness ==
  /\ runPc = "resolved"
  /\ requestCount > QUEUE_LIMIT
  /\ requestCount % QUEUE_LIMIT # 0
  /\ issued = [u \in 1..Len(Urls) |-> requestCount]

\* getTime calls made so far in this run, all URLs together.
TotalIssued == issued[1] + issued[2]

\* C24: the timing requests issued over one whole run, all measured URLs
\* together, never number more than MAX_CONCURRENCY, whatever request count
\* the command line gives.
C24_TotalCapped == TotalIssued <= MAX_CONCURRENCY

\* run() resolved and --json was given.
SavedRun == runPc = "resolved" /\ argv.json

\* The entries the file held before the run, [] when it was missing or unparsable.
EarlierHistory == ParseHistory(prior)

\* C25: after a successful run with --json, performance-results.json is an
\* array of at most HISTORY_MAX entries whose last entry is this run's and
\* whose other entries are the most recent entries the file held before, in
\* their order; a file that was missing or unparsable counts as empty.
C25_HistoryTrimmed ==
  SavedRun =>
    LET h == historyFile.items
        k == Len(h) - 1
    IN  /\ historyFile.kind = "array"
        /\ Len(h) >= 1 /\ Len(h) <= HISTORY_MAX
        /\ h[Len(h)] = Entry(now, {Urls[1], Urls[2]})
        /\ k = (IF Len(EarlierHistory) < HISTORY_MAX THEN Len(EarlierHistory) ELSE HISTORY_MAX - 1)
        /\ \A j \in 1..k : h[j] = EarlierHistory[Len(EarlierHistory) - k + j]

\* A successful --json run on a file that already held more than HISTORY_MAX entries.
C25_Witness == SavedRun /\ Len(EarlierHistory) > HISTORY_MAX

\* run() has settled the file name it measures.
NameSettled == runPc \notin {"idle", "readBuildHash"}

\* build.hash exists, can be read, and trims to exactly eight lower-case hexadecimal characters.
WellFormedHash ==
  /\ buildHashFile.state = "present"
  /\ LET t == Trim(buildHashFile.data)
     IN  Len(t) = HashLength /\ \A i \in 1..Len(t) : t[i] \in LowerHex

\* C26: the performance run measures core.<hash>.min.css, with the trimmed
\* content of build.hash as <hash>, exactly when build.hash exists, is
\* readable and trims to eight lower-case hexadecimal characters; in every
\* other case (missing, unreadable, malformed) it measures core.min.css, and
\* reading the hash never makes the run fail.
C26_HashOrPlain ==
  /\ runPc = "readBuildHash" => rejection = ""
  /\ NameSettled =>
       /\ WellFormedHash =>
            fileName = <<"core", ".">> \o Trim(buildHashFile.data) \o <<".", "min", ".", "css">>
       /\ ~WellFormedHash => fileName = PlainCore
       /\ (rejection # "" => (rejection \in RequestErrors \/ rejection = TypeError))
       /\ issued[1] >= 1

\* A run went on to measure core.min.css after finding a build.hash whose
\* text is not a hash.
C26_Witness ==
  /\ NameSettled
  /\ buildHashFile.state = "present" /\ buildHashFile.data # <<>>
  /\ ~WellFormedHash
  /\ fileName = PlainCore

\* After a step, if some timing request has failed, run() stands rejected
\* with the error of the first one that failed and the history file is as
\* it was when the run began.
C30_Rejected ==
  failures' # <<>> =>
    /\ runPc' = "rejected"
    /\ rejection' = failures'[1]
    /\ historyFile' = prior'

\* Once a timing request has failed, no step makes another getTime call or
\* moves on to another batch or URL.
C30_Stopped ==
  failures # <<>> => (issued' = issued /\ batchI' = batchI /\ urlIx' = urlIx)

\* C30: if a timing request fails during a performance run, run() rejects
\* with that error (the first failure's, when several requests of the batch
\* fail), no further batch and no further URL is started, and
\* performance-results.json stays exactly as it was, also with --json.
C30_FailureStopsRun == [][C30_Rejected /\ C30_Stopped]_vars

\* A --json run failed on its second URL, after the first URL's average was
\* taken, and every request has ended.
C30_Witness ==
  /\ failures # <<>> /\ argv.json
  /\ urlIx = 2 /\ results = {Urls[1]}
  /\ inFlight = 0
  /\ runPc = "rejected"

\* ------------------------------------------------ base path and creation
\* The resolved pathname of script s ends with index.js, letter case and
\* query string set aside.
NamedIndexJs(s) ==
  /\ s.valid /\ s.src # <<>>
  /\ \E k \in 1..Len(s.src) :
       /\ s.src[k] \in {"index.js", "INDEX.JS"}
       /\ (k = Len(s.src) \/ s.src[k + 1] \in {"?", "#"})
       /\ \A j \in 1..(k - 1) : s.src[j] \notin {"?", "#"}

\* The script the fixed order names: the current script, else the first
\* script named index.js, else the first marked script, else none (0).
OrderedSource ==
  IF currentScript # 0 THEN currentScript
  ELSE IF \E i \in 1..Len(scripts) : NamedIndexJs(scripts[i])
    THEN CHOOSE i \in 1..Len(scripts) :
           NamedIndexJs(scripts[i]) /\ \A j \in 1..(i - 1) : ~NamedIndexJs(scripts[j])
  ELSE IF \E i \in 1..Len(scripts) : scripts[i].marked
    THEN CHOOSE i \in 1..Len(scripts) :
           scripts[i].marked /\ \A j \in 1..(i - 1) : ~scripts[j].marked
  ELSE 0

\* The directory part of that script's src, empty without a script or a src.
OrderedBase ==
  IF OrderedSource = 0 THEN <<>>
  ELSE SubSeq(scripts[OrderedSource].src, 1, LastIndexOf(scripts[OrderedSource].src, "/"))

\* This step is an injectCss call that created a link.
CreateStep == InjectStep /\ Len(elems') = Len(elems) + 1

C28_CreatesWhenAbsent ==
  [][(docState = "ok" /\ InjectStep
      /\ \A i \in LinksOf(head) : ~IsTargetLink(elems[i]))
       => /\ Len(elems') = Len(elems) + 1
          /\ ret' = Len(elems')
          /\ head'[Len(head')] = ret'
          /\ elems'[ret'].rel = "stylesheet"
          /\ elems'[ret'].type = "text/css"
          /\ elems'[ret'].attr = BasePath(scripts, currentScript) \o cssFile]_vars

\* Link i was created by injectCss, its handler has fired, and it points at qore.css.
FellBack(i) == elems[i].injected /\ ~elems[i].onerror /\ IsFallbackLink(elems[i])

\* An injectCss call that finds fallen-back links in the head removes them
\* and appends a new link for the hashed file with its handler attached.
C29_Rerun ==
  (docState = "ok" /\ InjectStep /\ \E i \in LinksOf(head) : FellBack(i))
    => /\ \A i \in LinksOf(head) : FellBack(i) => i \notin LinksOf(head')
       /\ Len(elems') = Len(elems) + 1
       /\ head'[Len(head')] = Len(elems')
       /\ IsTargetLink(elems'[Len(elems')])
       /\ elems'[Len(elems')].onerror

\* A link whose handler has fired is never switched to qore.css again, and
\* its handler is never attached again.
C29_Once ==
  \A i \in 1..Len(elems) :
    (elems[i].injected /\ ~elems[i].onerror)
      => /\ ~elems'[i].onerror
         /\ (elems'[i].attr # elems[i].attr => ~IsFallbackLink(elems'[i]))

\* C29: an injectCss call made after the handler switched the injected link
\* to qore.css removes that link and appends a new link for the hashed file
\* with a freshly attached handler, and each link element is switched to
\* qore.css at most once.
C29_FallbackPerLink == [][C29_Rerun /\ C29_Once]_vars

=============================================================================
